---- MODULE Spec2Model ----
(***************************************************************************)
(* A model of src/src/transform_results.py: the Gitleaks wrapper that      *)
(* checks the command line, runs the scanner as a child process,           *)
(* classifies its failure text, and condenses its raw JSON report.         *)
(*                                                                         *)
(* Text is modelled as a sequence of tokens: a keyword the code searches   *)
(* for is one token, "\n" is the line break, " " is other whitespace and   *)
(* "x" is any other text; a fixed message is a text of one token.  A file  *)
(* is a record with a kind ("text" for content that is not JSON, "array"   *)
(* and "object" for parsed JSON).                                          *)
(* The program is a state machine over the program counter pc; a call of   *)
(* write_error_message saves the place it would return to in retpc.        *)
(***************************************************************************)
EXTENDS Integers, Sequences, FiniteSets, TLC

VARIABLES
    pc,            \* position of the process in the program
    entry,         \* the function the process was entered at
    retpc,         \* where the running write_error_message call would return to
    now,           \* the wall clock, in seconds
    argv,          \* sys.argv
    report_file,   \* main's local report_file
    command_args,  \* main's local command_args
    returncode,    \* <<>> before the child ran, then <<its exit code>>
    e_stderr,      \* e.stderr of the CalledProcessError in run_gitleaks
    error_message, \* run_gitleaks' local error_message
    report_path,   \* transform_results' parameter report_path
    gitleaks_output, \* transform_results' local gitleaks_output
    findings,      \* transform_results' local findings
    wem,           \* the arguments of the running write_error_message call
    calls,         \* every write_error_message call made so far, in order
    fs,            \* the file system: path -> file content
    unwritable,    \* the paths open(path, 'w') fails on
    opened,        \* the paths opened for reading so far
    stdout,        \* what was printed to standard output, in order
    stderr_out,    \* what was written to standard error, in order
    exit_status,   \* <<>> while running, <<c>> once sys.exit(c) was called
    fault          \* <<>>, or <<name>> of the unhandled exception raised

vars == <<pc, entry, retpc, now, argv, report_file, command_args, returncode, e_stderr,
          error_message, report_path, gitleaks_output, findings, wem, calls,
          fs, unwritable, opened, stdout, stderr_out, exit_status, fault>>

(***************************************************************************)
(* Bounds of the model.                                                    *)
(***************************************************************************)
\* the longest captured error stream, in tokens
MaxErrLen == 3
\* the longest raw report transform_results is called on directly, in records
MaxFindings == 2
\* the longest raw report the scanner writes, in records
MaxScanFindings == 1
\* the last second of the wall clock
MaxClock == 1

(***************************************************************************)
(* ExitCodes                                                               *)
(***************************************************************************)
SUCCESS == 0
ARGUMENT_OR_FLAG_ERROR == 1
COMMAND_ERROR == 2
FILE_NOT_FOUND == 3
\* the empty report reported under the code of a missing one
NoFindingsAsNotFound == FILE_NOT_FOUND
NO_FINDINGS == 4
NO_GIT_FOLDER == 5

(***************************************************************************)
(* Sequences                                                               *)
(***************************************************************************)
Contains(s, x) == \E i \in DOMAIN s : s[i] = x

\* all sequences over S of length at most n
SeqsUpTo(S, n) == UNION { [1..k -> S] : k \in 0..n }

\* list.remove(x): the list without its first x
Remove(s, x) ==
    IF ~Contains(s, x) THEN s
    ELSE LET i == CHOOSE k \in DOMAIN s :
                      s[k] = x /\ \A j \in 1..(k-1) : s[j] # x
         IN  SubSeq(s, 1, i-1) \o SubSeq(s, i+1, Len(s))

(***************************************************************************)
(* Text: str.strip(), str.split('\n')[0], "kw in text"                     *)
(***************************************************************************)
Whitespace == {"\n", " "}

UnknownFlagKeywords == {"unknown flag:", "flag needs an argument:"}
UnknownCommandKeywords == {"unknown command", "for more information about a command."}
NoGitKeyword == "could not create Git cmd"

Tokens == UnknownFlagKeywords \cup UnknownCommandKeywords
              \cup {NoGitKeyword} \cup Whitespace \cup {"x"}

\* str.strip(): without leading and trailing whitespace
Strip(text) ==
    LET solid == { i \in DOMAIN text : text[i] \notin Whitespace }
    IN  IF solid = {} THEN <<>>
        ELSE LET lo == CHOOSE i \in solid : \A j \in solid : i <= j
                 hi == CHOOSE i \in solid : \A j \in solid : j <= i
             IN  SubSeq(text, lo, hi)

\* text.split('\n')[0]: the text before the first line break
FirstLine(text) ==
    LET breaks == { i \in DOMAIN text : text[i] = "\n" }
    IN  IF breaks = {} THEN text
        ELSE LET b == CHOOSE i \in breaks : \A j \in breaks : i <= j
             IN  SubSeq(text, 1, b-1)

\* any(keyword in text for keyword in kws)
AnyKeywordIn(kws, text) == \E k \in kws : Contains(text, k)

\* the diagnostic taken without strip(): e.stderr.split('\n')[0]
DiagnosticUnstripped(text) == FirstLine(text)

\* the diagnostic taken without the split: e.stderr.strip()
DiagnosticWholeStream(text) == Strip(text)

\* run_gitleaks' error_message: e.stderr.strip().split('\n')[0]
Diagnostic(text) == FirstLine(Strip(text))

(***************************************************************************)
(* ReportFile                                                              *)
(***************************************************************************)
\* datetime.strftime
strftime(t) == ToString(t)

generate_filename(base_name, timestamp, extension) ==
    base_name \o "_" \o timestamp \o extension

(***************************************************************************)
(* Files and JSON values                                                   *)
(***************************************************************************)
NoValue == [shape |-> "", exit_code |-> 0, error_message |-> <<>>,
            findings |-> <<>>, items |-> <<>>]

\* a file whose content is not JSON
TextFile == [kind |-> "text"] @@ NoValue

\* a raw report: a JSON array of records
ArrayFile(items) == [kind |-> "array", items |-> items] @@ NoValue

\* json.dump({"exit_code": error_code, "error_message": error_message})
ErrorReport(error_code, message) ==
    [kind |-> "object", shape |-> "error", exit_code |-> error_code,
     error_message |-> message] @@ NoValue

\* GitleaksResults(findings=findings).model_dump()
ResultReport(fnd) ==
    [kind |-> "object", shape |-> "result", findings |-> fnd] @@ NoValue

(***************************************************************************)
(* transform_results: one raw record to one condensed finding              *)
(***************************************************************************)
\* item.get(key, default)
Get(item, key, default) == IF key \in DOMAIN item THEN item[key] ELSE default

\* f"{item.get(key, 'unknown')}": the line number as text, or the sentinel
LineBound(item, key) ==
    IF key \in DOMAIN item THEN ToString(item[key]) ELSE "unknown"

CondensedFinding(item) ==
    [filename    |-> Get(item, "File", "unknown"),
     line_range  |-> LineBound(item, "StartLine") \o "-" \o LineBound(item, "EndLine"),
     description |-> Get(item, "Description", "No description provided")]

\* the findings in the reverse of the records' order
CondenseReversed(items) ==
    [i \in 1..Len(items) |-> CondensedFinding(items[Len(items) + 1 - i])]

\* the list comprehension over gitleaks_output
Condense(items) == [i \in 1..Len(items) |-> CondensedFinding(items[i])]

(***************************************************************************)
(* The fixed messages                                                      *)
(***************************************************************************)
UsageMessage == <<"Usage: docker run --rm -v $(pwd):/code gitleaks-pipeline <gitleaks-args>">>
NotFoundMessage == <<"Gitleaks report file not found">>
NoFindingsMessage == <<"No findings detected. Ensure all repository files are correctly placed in your project's main directory for accurate scanning!">>
NoGitMessage == <<"No .git folder found. Ensure you are in the root directory of the repository or add the flag '--no-git'">>

(***************************************************************************)
(* The inputs of a run                                                     *)
(***************************************************************************)
Prog == "transform_results.py"
UserPath == "my.json"
InitialReport == generate_filename("report", strftime(0), ".json")
TransformedReports ==
    { generate_filename("transformed_report", strftime(t), ".json") : t \in 0..MaxClock }
AllPaths == {UserPath, InitialReport} \cup TransformedReports

\* the command lines the process is started with
Argvs ==
    { <<Prog>>,
      <<Prog, "detect", "--help">>,
      <<Prog, "detect", "--no-git">>,
      <<Prog, "detect", "-v">>,
      <<Prog, "detect", "--report-path", UserPath>>,
      <<Prog, "gitleaks", "detect", "--verbose", "--config">> }

\* the records of a raw report: any of the four keys may be absent
RawItems ==
    { [File |-> "a.txt", StartLine |-> 1, EndLine |-> 1, Description |-> "x", RuleID |-> "r"],
      [File |-> "b.txt", StartLine |-> 5, EndLine |-> 6, Description |-> "y"],
      [StartLine |-> 7, Description |-> "y"],
      [File |-> "a.txt", EndLine |-> 6, RuleID |-> "r"] }

RawReports == SeqsUpTo(RawItems, MaxFindings)
ScannerReports == SeqsUpTo(RawItems, MaxScanFindings)

\* the error streams of a failed child process
ErrorStreams == SeqsUpTo(Tokens, MaxErrLen)

\* what a path may hold before the process starts
StaleFiles == {TextFile, ErrorReport(NO_FINDINGS, NoFindingsMessage)}
                  \cup { ArrayFile(r) : r \in RawReports }

\* the codes and messages write_error_message is called with directly
DirectCodes == {-1, SUCCESS, FILE_NOT_FOUND, 123, 256}
DirectMessages == {<<"Custom error">>, <<"Test error">>}

\* the sets of paths that cannot be opened for writing
Unwritables == {{}, AllPaths}

NoCall == [error_message |-> <<>>, error_code |-> 0, report_file |-> ""]

WithFile(files, path, content) ==
    [p \in DOMAIN files \cup {path} |-> IF p = path THEN content ELSE files[p]]

NoFiles == [p \in {} |-> TextFile]

InitLocals ==
    /\ retpc = "" /\ now = 0
    /\ report_file = "" /\ command_args = <<>>
    /\ returncode = <<>> /\ e_stderr = <<>> /\ error_message = <<>>
    /\ gitleaks_output = <<>> /\ findings = <<>>
    /\ calls = <<>> /\ opened = {}
    /\ stdout = <<>> /\ stderr_out = <<>>
    /\ exit_status = <<>> /\ fault = <<>>

\* python transform_results.py <args>
InitMain ==
    /\ entry = "main" /\ pc = "main"
    /\ argv \in Argvs
    /\ fs = NoFiles
    /\ report_path = "" /\ wem = NoCall

\* transform_results(report_path), as the tests call it
InitTransform ==
    /\ entry = "transform_results" /\ pc = "transform_results"
    /\ argv = <<Prog>>
    /\ report_path = UserPath
    /\ fs \in {NoFiles} \cup { WithFile(NoFiles, UserPath, c) : c \in StaleFiles }
    /\ wem = NoCall

\* write_error_message(error_message, error_code, report_file), as the tests call it
InitReporter ==
    /\ entry = "write_error_message" /\ pc = "write_error_message"
    /\ argv = <<Prog>>
    /\ report_path = ""
    /\ fs \in {NoFiles, WithFile(NoFiles, UserPath, TextFile)}
    /\ wem \in [error_message : DirectMessages, error_code : DirectCodes,
                report_file : {UserPath}]

Init ==
    /\ InitLocals
    /\ unwritable \in Unwritables
    /\ (InitMain \/ InitTransform \/ InitReporter)

(***************************************************************************)
(* write_error_message                                                     *)
(***************************************************************************)
\* the call write_error_message(message, code, destination) made at a place
\* whose next statement is ret
Call(message, code, destination, ret) ==
    /\ wem' = [error_message |-> message, error_code |-> code,
               report_file |-> destination]
    /\ retpc' = ret
    /\ pc' = "write_error_message"

\* sys.exit swallowed: the reporter returns to its caller
ReturnToCaller(ret) == ret

\* where control is after sys.exit(error_code): SystemExit is no Exception,
\* nothing catches it, and the caller at ret is never resumed
AfterSysExit(ret) == "exited"

\* what open(report_file, 'w') and json.dump leave at the destination
Written(files, call) ==
    WithFile(files, call.report_file,
             ErrorReport(call.error_code, call.error_message))

WriteErrorMessage ==
    /\ pc = "write_error_message"
    /\ calls' = Append(calls, wem)
    /\ IF wem.report_file \in unwritable
       THEN /\ fs' = fs
            /\ stdout' = Append(stdout, [what |-> "Error writing to output file",
                                         path |-> wem.report_file, findings |-> <<>>])
       ELSE /\ fs' = Written(fs, wem)
            /\ stdout' = Append(stdout, [what |-> "[!] Please check the output file",
                                         path |-> wem.report_file, findings |-> <<>>])
    /\ exit_status' = <<wem.error_code>>
    /\ pc' = AfterSysExit(retpc)
    /\ UNCHANGED <<entry, retpc, now, argv, report_file, command_args, returncode, e_stderr,
                   error_message, report_path, gitleaks_output, findings, wem,
                   unwritable, opened, stderr_out, fault>>

(***************************************************************************)
(* main and check_args                                                     *)
(***************************************************************************)
\* main: report_file = ReportFile.create_with_timestamp().generate_filename()
Main ==
    /\ pc = "main"
    /\ report_file' = generate_filename("report", strftime(now), ".json")
    /\ pc' = "check_args"
    /\ UNCHANGED <<entry, retpc, now, argv, command_args, returncode, e_stderr, error_message,
                   report_path, gitleaks_output, findings, wem, calls, fs,
                   unwritable, opened, stdout, stderr_out, exit_status, fault>>

\* check_args: no arguments provided
CheckArgsUsage ==
    /\ pc = "check_args"
    /\ IF Len(argv) < 2
       THEN Call(UsageMessage, COMMAND_ERROR, report_file, "check_args_help")
       ELSE pc' = "check_args_help" /\ UNCHANGED <<wem, retpc>>
    /\ UNCHANGED <<entry, now, argv, report_file, command_args, returncode, e_stderr,
                   error_message, report_path, gitleaks_output, findings, calls,
                   fs, unwritable, opened, stdout, stderr_out, exit_status, fault>>

HelpRequested(args) == Contains(args, "--help") \/ Contains(args, "-h")

\* check_args: the help command, subprocess.run(["gitleaks", "--help"]); sys.exit(0)
CheckArgsHelp ==
    /\ pc = "check_args_help"
    /\ IF HelpRequested(argv)
       THEN /\ stdout' = Append(stdout, [what |-> "gitleaks --help", path |-> "",
                                         findings |-> <<>>])
            /\ exit_status' = <<SUCCESS>>
            /\ pc' = "exited"
       ELSE /\ pc' = "check_args_flags"
            /\ UNCHANGED <<stdout, exit_status>>
    /\ UNCHANGED <<entry, retpc, now, argv, report_file, command_args, returncode, e_stderr,
                   error_message, report_path, gitleaks_output, findings, wem,
                   calls, fs, unwritable, opened, stderr_out, fault>>

\* sys.argv after the three rewrites of check_args
WithReportPath(args, file) ==
    IF ~Contains(args, "--report-path")
    THEN args \o <<"--report-path", file>> ELSE args

WithConfig(args) ==
    IF Contains(args, "--config")
    THEN args \o <<"--config", "src/gitleaks.toml">> ELSE args

WithoutGitleaks(args) ==
    IF Contains(Tail(args), "gitleaks") THEN Remove(args, "gitleaks") ELSE args

CheckedArgs(args, file) == WithoutGitleaks(WithConfig(WithReportPath(args, file)))

\* what check_args returns to main as the run's report file
CheckArgsResult(args, file) == file

\* check_args' flag rewrites and return, then main's command_args
CheckArgsFlags ==
    /\ pc = "check_args_flags"
    /\ argv' = CheckedArgs(argv, report_file)
    /\ report_file' = CheckArgsResult(argv, report_file)
    /\ command_args' = <<"gitleaks">> \o Tail(argv')
    /\ pc' = "run_gitleaks"
    /\ UNCHANGED <<entry, retpc, now, returncode, e_stderr, error_message,
                   report_path, gitleaks_output, findings, wem, calls, fs,
                   unwritable, opened,
                   stdout, stderr_out, exit_status, fault>>

(***************************************************************************)
(* The scanner: the child process of subprocess.run                        *)
(***************************************************************************)
\* the value the command gives the flag: the argument after its first use
FlagValue(args, flag) ==
    LET at == { i \in DOMAIN args : args[i] = flag /\ i < Len(args) }
    IN  IF at = {} THEN ""
        ELSE args[(CHOOSE i \in at : \A j \in at : i <= j) + 1]

\* the file the scanner is told to write
ScannerReport(args) == FlagValue(args, "--report-path")

\* what the scanner may leave at its report path
ScannerFiles == {TextFile} \cup { ArrayFile(r) : r \in ScannerReports }

\* the file system after the scanner ran: it wrote its report, or nothing
ScannerWrote(files) ==
    {files} \cup
    IF ScannerReport(command_args) \in {""} \cup unwritable THEN {}
    ELSE { WithFile(files, ScannerReport(command_args), c) : c \in ScannerFiles }

(***************************************************************************)
(* run_gitleaks                                                            *)
(***************************************************************************)
\* subprocess.run returns: the child exited with code 0
SubprocessOk ==
    /\ pc = "run_gitleaks"
    /\ fs' \in ScannerWrote(fs)
    /\ returncode' = <<0>>
    /\ report_path' = report_file
    /\ pc' = "transform_results"
    /\ UNCHANGED <<entry, retpc, now, argv, report_file, command_args, e_stderr,
                   error_message, gitleaks_output, findings, wem, calls,
                   unwritable, opened, stdout, stderr_out, exit_status, fault>>

\* subprocess.run raises CalledProcessError: the handler takes the diagnostic
SubprocessFails ==
    /\ pc = "run_gitleaks"
    /\ fs' \in ScannerWrote(fs)
    /\ returncode' = <<1>>
    /\ e_stderr' \in ErrorStreams
    /\ error_message' = Diagnostic(e_stderr')
    /\ pc' = "check_unknown_flag"
    /\ UNCHANGED <<entry, retpc, now, argv, report_file, command_args, report_path,
                   gitleaks_output, findings, wem, calls, unwritable, opened,
                   stdout, stderr_out, exit_status, fault>>

\* the first check yielding to the second when both match
IsCommandErrorLowPriority(message) ==
    /\ AnyKeywordIn(UnknownFlagKeywords, message)
    /\ ~AnyKeywordIn(UnknownCommandKeywords, message)

\* the three checks of the handler, in the order of the code
IsCommandError(message) == AnyKeywordIn(UnknownFlagKeywords, message)
IsArgumentError(message) == AnyKeywordIn(UnknownCommandKeywords, message)
IsNoGitFolder(stream) == Contains(stream, NoGitKeyword)

CheckUnknownFlag ==
    /\ pc = "check_unknown_flag"
    /\ IF IsCommandError(error_message)
       THEN Call(error_message, COMMAND_ERROR, report_file, "check_unknown_command")
       ELSE pc' = "check_unknown_command" /\ UNCHANGED <<wem, retpc>>
    /\ UNCHANGED <<entry, now, argv, report_file, command_args, returncode, e_stderr,
                   error_message, report_path, gitleaks_output, findings, calls,
                   fs, unwritable, opened, stdout, stderr_out, exit_status, fault>>

CheckUnknownCommand ==
    /\ pc = "check_unknown_command"
    /\ IF IsArgumentError(error_message)
       THEN Call(error_message, ARGUMENT_OR_FLAG_ERROR, report_file, "check_no_git")
       ELSE pc' = "check_no_git" /\ UNCHANGED <<wem, retpc>>
    /\ UNCHANGED <<entry, now, argv, report_file, command_args, returncode, e_stderr,
                   error_message, report_path, gitleaks_output, findings, calls,
                   fs, unwritable, opened, stdout, stderr_out, exit_status, fault>>

CheckNoGit ==
    /\ pc = "check_no_git"
    /\ IF IsNoGitFolder(e_stderr)
       THEN Call(NoGitMessage, NO_GIT_FOLDER, report_file, "check_verbose")
       ELSE pc' = "check_verbose" /\ UNCHANGED <<wem, retpc>>
    /\ UNCHANGED <<entry, now, argv, report_file, command_args, returncode, e_stderr,
                   error_message, report_path, gitleaks_output, findings, calls,
                   fs, unwritable, opened, stdout, stderr_out, exit_status, fault>>

\* only the long verbose flag recognised
VerboseLongOnly(args) == Contains(args, "--verbose")

VerboseRequested(args) == Contains(args, "--verbose") \/ Contains(args, "-v")

\* the verbose echo, the return to main, and main's call of transform_results
CheckVerbose ==
    /\ pc = "check_verbose"
    /\ stderr_out' = IF VerboseRequested(argv)
                     THEN Append(stderr_out, e_stderr) ELSE stderr_out
    /\ report_path' = report_file
    /\ pc' = "transform_results"
    /\ UNCHANGED <<entry, retpc, now, argv, report_file, command_args, returncode, e_stderr,
                   error_message, gitleaks_output, findings, wem, calls, fs,
                   unwritable, opened, stdout, exit_status, fault>>

(***************************************************************************)
(* transform_results                                                       *)
(***************************************************************************)
\* the existence check left out
ExistsAlways(path) == TRUE

\* os.path.exists(report_path)
Exists(path) == path \in DOMAIN fs

TransformExists ==
    /\ pc = "transform_results"
    /\ IF ~Exists(report_path)
       THEN Call(NotFoundMessage, FILE_NOT_FOUND, report_path, "transform_open")
       ELSE pc' = "transform_open" /\ UNCHANGED <<wem, retpc>>
    /\ UNCHANGED <<entry, now, argv, report_file, command_args, returncode, e_stderr,
                   error_message, report_path, gitleaks_output, findings, calls,
                   fs, unwritable, opened, stdout, stderr_out, exit_status, fault>>

\* a parse failure caught and read as an empty report
LoadFaultTolerant(path) ==
    IF ~Exists(path) THEN <<"FileNotFoundError">>
    ELSE IF fs[path].kind = "object" THEN <<"AttributeError">>
    ELSE <<>>

\* the exception open, json.load or the comprehension raises on the file, if any
LoadFault(path) ==
    IF ~Exists(path) THEN <<"FileNotFoundError">>
    ELSE IF fs[path].kind = "text" THEN <<"JSONDecodeError">>
    ELSE IF fs[path].kind = "object" THEN <<"AttributeError">>
    ELSE <<>>

\* open(report_path, 'r'), json.load and the comprehension that builds findings
TransformOpen ==
    /\ pc = "transform_open"
    /\ opened' = opened \cup {report_path}
    /\ IF LoadFault(report_path) # <<>>
       THEN /\ fault' = LoadFault(report_path)
            /\ pc' = "fault"
            /\ UNCHANGED <<gitleaks_output, findings>>
       ELSE /\ gitleaks_output' = fs[report_path].items
            /\ findings' = Condense(gitleaks_output')
            /\ pc' = "transform_empty"
            /\ UNCHANGED fault
    /\ UNCHANGED <<entry, retpc, now, argv, report_file, command_args, returncode, e_stderr,
                   error_message, report_path, wem, calls, fs, unwritable,
                   stdout, stderr_out, exit_status>>

\* if not findings
TransformEmpty ==
    /\ pc = "transform_empty"
    /\ IF findings = <<>>
       THEN Call(NoFindingsMessage, NO_FINDINGS, report_path, "transform_output")
       ELSE pc' = "transform_output" /\ UNCHANGED <<wem, retpc>>
    /\ UNCHANGED <<entry, now, argv, report_file, command_args, returncode, e_stderr,
                   error_message, report_path, gitleaks_output, findings, calls,
                   fs, unwritable, opened, stdout, stderr_out, exit_status, fault>>

\* print the result, name the transformed report by a fresh timestamp, write it
TransformOutput ==
    /\ pc = "transform_output"
    /\ stdout' = Append(stdout, [what |-> "result", path |-> "",
                                 findings |-> findings])
    /\ \E t \in now..MaxClock :
         LET transformed_report_file ==
                 generate_filename("transformed_report", strftime(t), ".json")
         IN  /\ now' = t
             /\ IF transformed_report_file \in unwritable
                THEN /\ fault' = <<"OSError">>
                     /\ pc' = "fault"
                     /\ fs' = fs
                ELSE /\ fs' = WithFile(fs, transformed_report_file,
                                       ResultReport(findings))
                     /\ pc' = "done"
                     /\ fault' = fault
    /\ UNCHANGED <<entry, retpc, argv, report_file, command_args, returncode, e_stderr,
                   error_message, report_path, gitleaks_output, findings, wem,
                   calls, unwritable, opened, stderr_out, exit_status>>

Next ==
    \/ Main
    \/ CheckArgsUsage
    \/ CheckArgsHelp
    \/ CheckArgsFlags
    \/ SubprocessOk
    \/ SubprocessFails
    \/ CheckUnknownFlag
    \/ CheckUnknownCommand
    \/ CheckNoGit
    \/ CheckVerbose
    \/ TransformExists
    \/ TransformOpen
    \/ TransformEmpty
    \/ TransformOutput
    \/ WriteErrorMessage

Spec == Init /\ [][Next]_vars

(***************************************************************************)
(* What the claims speak of                                                *)
(***************************************************************************)
\* the last element of a non-empty sequence
Last(s) == s[Len(s)]

\* a ResultReport was printed
ResultPrinted == \E i \in DOMAIN stdout : stdout[i].what = "result"

\* a transformed_report_<timestamp>.json file exists
TransformedFileExists == \E p \in TransformedReports : p \in DOMAIN fs

\* the file at path holds exactly {"exit_code": code, "error_message": message}
HoldsErrorReport(path, code, message) ==
    /\ path \in DOMAIN fs
    /\ fs[path].kind = "object" /\ fs[path].shape = "error"
    /\ fs[path].exit_code = code /\ fs[path].error_message = message
    /\ fs[path].findings = <<>> /\ fs[path].items = <<>>

\* the condensed finding the field rules give for one raw record
ExpectedFinding(item) ==
    [filename    |-> IF "File" \in DOMAIN item THEN item.File ELSE "unknown",
     line_range  |-> (IF "StartLine" \in DOMAIN item
                      THEN ToString(item.StartLine) ELSE "unknown")
                     \o "-" \o
                     (IF "EndLine" \in DOMAIN item
                      THEN ToString(item.EndLine) ELSE "unknown"),
     description |-> IF "Description" \in DOMAIN item THEN item.Description
                     ELSE "No description provided"]

\* C1: a raw report of N >= 1 records is condensed to exactly N findings in
\* the order of the records, findings[i] carrying record i's File, Description
\* and "<StartLine>-<EndLine>", each absent File, StartLine, EndLine replaced
\* by "unknown" and an absent Description by "No description provided"; the
\* report with these findings is what is printed and what the transformed
\* file holds, and a report of N >= 1 records is never rejected as empty.
C1_CondensedInOrder ==
    LET raw == gitleaks_output
        Right(fnd) == /\ Len(fnd) = Len(raw)
                      /\ \A i \in 1..Len(raw) : fnd[i] = ExpectedFinding(raw[i])
    IN  Len(raw) >= 1 =>
          /\ pc \in {"transform_empty", "transform_output", "done", "fault"}
          /\ calls = <<>>
          /\ Right(findings)
          /\ \A i \in DOMAIN stdout :
                stdout[i].what = "result" => Right(stdout[i].findings)
          /\ \A p \in TransformedReports :
                p \in DOMAIN fs => /\ fs[p].kind = "object"
                                   /\ fs[p].shape = "result"
                                   /\ Right(fs[p].findings)
          /\ pc = "done" => ResultPrinted /\ TransformedFileExists

\* C1 happens: two different records, one of them without File and EndLine,
\* were condensed and the transformed report was written
C1_Witness ==
    /\ pc = "done"
    /\ Len(gitleaks_output) = 2
    /\ gitleaks_output[1] # gitleaks_output[2]
    /\ "File" \notin DOMAIN gitleaks_output[1]
    /\ "StartLine" \in DOMAIN gitleaks_output[1]
    /\ "EndLine" \notin DOMAIN gitleaks_output[1]
    /\ TransformedFileExists

\* C2: write_error_message(M, C, path) never returns to its caller and ends
\* the process with exit code C for every C, whether the write succeeds or
\* fails, and when the path is writable the file then holds exactly
\* {"exit_code": C, "error_message": M}.
C2_ReporterIsTerminal ==
    calls # <<>> =>
        /\ pc = "exited"
        /\ Len(calls) = 1
        /\ exit_status = <<calls[1].error_code>>
        /\ calls[1].report_file \notin unwritable =>
              HoldsErrorReport(calls[1].report_file, calls[1].error_code,
                               calls[1].error_message)
        /\ calls[1].report_file \in unwritable =>
              ~HoldsErrorReport(calls[1].report_file, calls[1].error_code,
                                calls[1].error_message)

\* C2 happens: a code outside ExitCodes was reported to a path that cannot be
\* written
C2_Witness ==
    /\ entry = "write_error_message"
    /\ pc = "exited"
    /\ exit_status = <<123>>
    /\ calls[1].report_file \in unwritable

\* the raw report was opened and parsed to an empty array
ParsedEmpty ==
    /\ report_path \in opened
    /\ fault = <<>>
    /\ gitleaks_output = <<>>

\* C3: when the raw report exists and parses to an empty array, the process
\* ends with exit code 4 through the reporter, whose destination is the
\* raw-report path itself (the ErrorReport replaces the raw report when the
\* path is writable), no transformed report file is created and no
\* ResultReport is printed.
C3_EmptyReportExitsFour ==
    ParsedEmpty =>
        /\ pc \in {"transform_empty", "write_error_message", "exited"}
        /\ ~ResultPrinted
        /\ ~TransformedFileExists
        /\ pc = "transform_empty" => calls = <<>> /\ exit_status = <<>>
        /\ pc = "write_error_message" =>
              wem = [error_message |-> NoFindingsMessage, error_code |-> 4,
                     report_file |-> report_path]
        /\ pc = "exited" =>
              /\ exit_status = <<4>>
              /\ calls = << [error_message |-> NoFindingsMessage, error_code |-> 4,
                             report_file |-> report_path] >>
              /\ report_path \notin unwritable =>
                    HoldsErrorReport(report_path, 4, NoFindingsMessage)

\* C3 happens: the scanner wrote an empty array and the run ended with the
\* ErrorReport in its place
C3_Witness ==
    /\ entry = "main"
    /\ ParsedEmpty
    /\ pc = "exited"
    /\ HoldsErrorReport(report_path, 4, NoFindingsMessage)

\* C4: when the raw-report path does not exist, transform_results calls the
\* reporter with "Gitleaks report file not found", code 3 and that same path
\* as destination; the process then ends with exit code 3 and the path was
\* never opened as a raw report, nothing was printed as a ResultReport and no
\* transformed report exists.
C4_MissingReportExitsThree ==
    [][ /\ (pc = "transform_results" /\ report_path \notin DOMAIN fs) =>
              /\ pc' = "write_error_message"
              /\ wem' = [error_message |-> <<"Gitleaks report file not found">>,
                         error_code |-> 3, report_file |-> report_path]
              /\ opened' = {}
        /\ (pc = "write_error_message" /\ wem.error_code = 3
              /\ wem.error_message = <<"Gitleaks report file not found">>) =>
              /\ pc' = "exited"
              /\ exit_status' = <<3>>
              /\ calls' = <<wem>>
              /\ opened' = {}
              /\ ~ResultPrinted' /\ ~TransformedFileExists'
        /\ pc # "exited" ]_vars

\* C4 happens: the run ended with FILE_NOT_FOUND reported to the path that
\* transform_results was given
C4_Witness ==
    /\ pc = "exited"
    /\ exit_status = <<3>>
    /\ calls[1].error_message = NotFoundMessage
    /\ calls[1].report_file = report_path
    /\ opened = {}

\* C5: when the raw report exists and is not JSON, transform_results ends in
\* an unhandled JSONDecodeError: the reporter is not called, no ErrorReport is
\* written, the raw report is left as it was, nothing is printed, no
\* transformed report is produced, and the process does nothing further.
C5_MalformedReportFaults ==
    [][ /\ (/\ pc = "transform_open"
            /\ report_path \in DOMAIN fs
            /\ fs[report_path].kind = "text") =>
              /\ pc' = "fault"
              /\ fault' = <<"JSONDecodeError">>
              /\ calls' = <<>> /\ calls = <<>>
              /\ exit_status' = <<>>
              /\ fs' = fs
              /\ stdout' = stdout
              /\ ~ResultPrinted' /\ ~TransformedFileExists'
        /\ pc # "fault" ]_vars

\* C5 happens: the scanner left a report that is not JSON and the run ended
\* in the parse fault
C5_Witness ==
    /\ entry = "main"
    /\ pc = "fault"
    /\ fault = <<"JSONDecodeError">>
    /\ fs[report_path].kind = "text"

(***************************************************************************)
(* The failure handler of run_gitleaks, as the claims see it               *)
(***************************************************************************)
\* the child process failed: subprocess.run raised CalledProcessError
ChildFailed == returncode # <<>> /\ returncode # <<0>>

\* the process is inside the three checks or the verbose echo of the handler
InHandler ==
    pc \in {"check_unknown_flag", "check_unknown_command", "check_no_git",
            "check_verbose"}

\* the first line of the error stream once its leading and trailing
\* whitespace is stripped, and the first line of the stream as captured
StrippedLine == FirstLine(Strip(e_stderr))
CapturedLine == FirstLine(e_stderr)

HasFlagText(line) ==
    Contains(line, "unknown flag:") \/ Contains(line, "flag needs an argument:")
HasCommandText(line) ==
    Contains(line, "unknown command")
        \/ Contains(line, "for more information about a command.")
HasNoGitText == Contains(e_stderr, "could not create Git cmd")

\* how many of the three checks match, the diagnostic being line
MatchCount(line) ==
    (IF HasFlagText(line) THEN 1 ELSE 0) + (IF HasCommandText(line) THEN 1 ELSE 0)
        + (IF HasNoGitText THEN 1 ELSE 0)

\* the report of the first and of the last matching check, in code order
FirstMatch(line) ==
    IF HasFlagText(line)
    THEN [error_message |-> line, error_code |-> 2, report_file |-> report_file]
    ELSE IF HasCommandText(line)
    THEN [error_message |-> line, error_code |-> 1, report_file |-> report_file]
    ELSE [error_message |-> NoGitMessage, error_code |-> 5, report_file |-> report_file]

LastMatch(line) ==
    IF HasNoGitText
    THEN [error_message |-> NoGitMessage, error_code |-> 5, report_file |-> report_file]
    ELSE IF HasCommandText(line)
    THEN [error_message |-> line, error_code |-> 1, report_file |-> report_file]
    ELSE [error_message |-> line, error_code |-> 2, report_file |-> report_file]

\* the run was ended by the reporter with exactly this report
EndedWith(call) ==
    /\ exit_status = <<call.error_code>>
    /\ calls = <<call>>
    /\ call.report_file \notin unwritable =>
          HoldsErrorReport(call.report_file, call.error_code, call.error_message)

\* C6 as stated: when more than one check matches, all matching checks run,
\* and the report file and the exit code are those of the last matching check.
C6_LastMatchWins ==
    (ChildFailed /\ MatchCount(StrippedLine) >= 2 /\ pc = "exited") =>
        /\ Len(calls) = MatchCount(StrippedLine)
        /\ exit_status = <<LastMatch(StrippedLine).error_code>>
        /\ LastMatch(StrippedLine).report_file \notin unwritable =>
              HoldsErrorReport(report_file, LastMatch(StrippedLine).error_code,
                               LastMatch(StrippedLine).error_message)

\* C6 amended: when more than one check matches, only the first matching
\* check (COMMAND_ERROR, then ARGUMENT_OR_FLAG_ERROR, then NO_GIT_FOLDER)
\* runs the reporter: the process ends there with that check's exit code, the
\* report file holds that check's ErrorReport when writable, and no later
\* check is reached.
C6_FirstMatchWins ==
    (ChildFailed /\ MatchCount(StrippedLine) >= 2) =>
        /\ pc \in {"check_unknown_flag", "check_unknown_command",
                   "write_error_message", "exited"}
        /\ pc \in {"check_unknown_flag", "check_unknown_command"} =>
              calls = <<>> /\ exit_status = <<>>
        /\ pc = "write_error_message" =>
              wem = FirstMatch(StrippedLine) /\ calls = <<>>
        /\ pc = "exited" => EndedWith(FirstMatch(StrippedLine))

\* C6 happens: all three checks match and the run ended
C6_Witness ==
    /\ ChildFailed
    /\ HasFlagText(StrippedLine) /\ HasCommandText(StrippedLine) /\ HasNoGitText
    /\ pc = "exited"
    /\ report_file \notin unwritable

\* C7 as stated: with exactly one category matching, the categories of the
\* first two checks being decided on the text up to the first line break of
\* the error stream, the run ends through the reporter with that category's
\* exit code and with that text (or the fixed no-git message) as the message.
C7_CapturedFirstLine ==
    (ChildFailed /\ MatchCount(CapturedLine) = 1 /\ pc = "exited") =>
        EndedWith(FirstMatch(CapturedLine))

\* C7 amended: the diagnostic is the text up to the first line break of the
\* error stream after its leading and trailing whitespace is stripped.  With
\* exactly one category matching on that diagnostic (the no-git check on the
\* full stream), the run ends through the reporter, destination the run's
\* report path: exit code 2 and the diagnostic for "unknown flag:" or "flag
\* needs an argument:", exit code 1 and the diagnostic for "unknown command"
\* or "for more information about a command.", exit code 5 and the fixed
\* no-git message for "could not create Git cmd".
C7_StrippedFirstLine ==
    (ChildFailed /\ MatchCount(StrippedLine) = 1) =>
        /\ pc \in {"check_unknown_flag", "check_unknown_command", "check_no_git",
                   "write_error_message", "exited"}
        /\ pc \in {"check_unknown_flag", "check_unknown_command", "check_no_git"} =>
              calls = <<>> /\ exit_status = <<>>
        /\ pc = "write_error_message" =>
              wem = FirstMatch(StrippedLine) /\ calls = <<>>
        /\ pc = "exited" => EndedWith(FirstMatch(StrippedLine))

\* C7 happens: the stream starts with whitespace, its stripped first line
\* matches the first check alone, and the run ended with exit code 2
C7_Witness ==
    /\ ChildFailed
    /\ MatchCount(StrippedLine) = 1
    /\ HasFlagText(StrippedLine)
    /\ e_stderr[1] \in Whitespace
    /\ pc = "exited"
    /\ exit_status = <<2>>

\* a verbose flag is among the arguments
VerboseFlag == Contains(argv, "--verbose") \/ Contains(argv, "-v")

\* C8 as stated: whenever the child fails and a verbose flag is present, the
\* full error stream is echoed to standard error, classified or not.
C8_EchoAlways ==
    (ChildFailed /\ VerboseFlag /\ pc \in {"exited", "done", "fault"}) =>
        stderr_out = <<e_stderr>>

\* C8 amended: whenever the child fails and a verbose flag is present, the
\* full error stream is echoed unmodified to standard error exactly when the
\* failure matches none of the three checks; when a check matches, the
\* reporter ends the process before the echo and nothing is echoed.  Without
\* a verbose flag nothing is echoed.
C8_EchoOnlyUnclassified ==
    ChildFailed =>
        stderr_out = IF VerboseFlag /\ MatchCount(StrippedLine) = 0 /\ ~InHandler
                     THEN <<e_stderr>> ELSE <<>>

\* C8 happens: a verbose run whose failure matched no check echoed a stream
\* of several lines and went on
C8_Witness ==
    /\ ChildFailed /\ VerboseFlag
    /\ MatchCount(StrippedLine) = 0
    /\ Contains(e_stderr, "\n") /\ Contains(e_stderr, "x")
    /\ stderr_out = <<e_stderr>>
    /\ pc = "done"

\* C9: when the child fails and its error text matches none of the checks,
\* run_gitleaks calls no reporter and does not exit; it returns to main,
\* which runs transform_results on the run's report path, and the run ends as
\* the transformer decides: FILE_NOT_FOUND, NO_FINDINGS, a fault, or success.
C9_UnclassifiedFallsThrough ==
    (ChildFailed /\ MatchCount(StrippedLine) = 0) =>
        /\ InHandler => calls = <<>> /\ exit_status = <<>> /\ fault = <<>>
        /\ ~InHandler =>
              /\ report_path = report_file
              /\ pc \in {"transform_results", "transform_open", "transform_empty",
                         "transform_output", "write_error_message", "exited",
                         "done", "fault"}
        /\ pc = "write_error_message" =>
              /\ retpc \in {"transform_open", "transform_output"}
              /\ wem.report_file = report_file
              /\ wem.error_code \in {3, 4}
        /\ pc = "exited" =>
              /\ exit_status \in {<<3>>, <<4>>}
              /\ calls[1].report_file = report_file
        /\ pc = "fault" => report_path \in opened /\ calls = <<>>
        /\ pc = "done" => ResultPrinted /\ calls = <<>> /\ exit_status = <<>>

\* C9 happens: the failure text names a keyword on its second line only, the
\* scanner had written its report, and the transformer succeeded on it
C9_Witness ==
    /\ ChildFailed
    /\ MatchCount(StrippedLine) = 0
    /\ HasFlagText(e_stderr)
    /\ pc = "done"
    /\ TransformedFileExists

\* C10: in every run that reaches the scanner, the path main passes to
\* transform_results and to the reporter is the value of --report-path in the
\* command given to the scanner.
C10_TransformerReadsScannerReport ==
    (entry = "main" /\ command_args # <<>>) =>
        /\ pc = "transform_results" =>
              report_path = FlagValue(command_args, "--report-path")
        /\ pc = "write_error_message" =>
              wem.report_file = FlagValue(command_args, "--report-path")

====
